---- MODULE Spec2Model ----
(***************************************************************************)
(* A model of OTM_v1.1.py (Onboarding Template Maker): the CSV record      *)
(* store, the e-mail formatter, the CF_HTML container builder and the      *)
(* clipboard export.                                                       *)
(*                                                                         *)
(* Text is a sequence of symbols.  A symbol is a one-character string, or  *)
(* a longer string standing for a run of ordinary characters (a column     *)
(* name such as "full_name"); no symbol of the second kind contains a      *)
(* delimiter, a quote or a line break.  Python's None is the value None.   *)
(***************************************************************************)
EXTENDS Integers, Sequences, FiniteSets, TLC

VARIABLES
    \* the record store
    DB_FILE,      \* the global DB_FILE: the path of the record file
    fs,           \* the file system: path -> text, or NoFile
    started,      \* the module-level load_config(); ensure_db(DB_FILE) has run
    recs,         \* the argument of the last save_records call
    saveResult,   \* how the save_records call just made ended ("none": no such call)
    preSave,      \* fs[DB_FILE] when the last save_records call began
    loaded,       \* what the last load_records call returned, or NotLoaded
    \* one call of set_html_clipboard_fragment(html_fragment, plain_text)
    pc,           \* the statement the call is at
    platform,     \* "win32" with pywin32, "win32_bare" without it, or "other"
    fragment,     \* html_fragment
    plainArg,     \* plain_text, or NoArg
    clipOwner,    \* who has the clipboard open: "none", "self", "other"
    clip,         \* the clipboard's contents: [html, text]
    clip0,        \* the clipboard's contents when the call began
    hHtml,        \* the memory block of the HTML container (h_global_html)
    hTxt,         \* the memory block of the text (h_global_txt)
    wExc,         \* _set_clipboard_html_win32 is leaving by an exception
    openFailed,   \* the stages whose OpenClipboard failed
    tkInstalled,  \* the payloads the Tk fallback installed, in order
    \* one call of _make_cf_html_bytes(fragment_html)
    cfPieces,     \* fragment_html, as the pieces it was put together from
    cfBytes,      \* the bytes the call returned, or NotBuilt
    \* one call of format_email_text(rec)
    fmtRec,       \* rec, or NoRecord
    emailText,    \* the lines of the text the call returned, NotFormatted, or Raised
    \* the window: the form, the record list, and the handler that ran last
    form,         \* the entries ent_full, ent_pc, ent_pass, ent_ext, ent_ddi
    tree,         \* the rows of the Treeview, row i under iid str(i - 1)
    sel,          \* tree.selection(): the indices (iids) of the selected rows
    current_index,\* the global current_index
    uiOp          \* the handler that ran last, with what it found and did

storeVars == <<DB_FILE, fs, started, recs, saveResult, preSave, loaded>>

clipVars == <<pc, platform, fragment, plainArg, clipOwner, clip, clip0, hHtml, hTxt,
              wExc, openFailed, tkInstalled>>

cfVars == <<cfPieces, cfBytes>>

fmtVars == <<fmtRec, emailText>>

uiVars == <<form, tree, sel, current_index, uiOp>>

\* the variables the store's operations leave alone
otherVars == <<clipVars, cfVars, fmtVars, uiVars>>

\* the variables the clipboard export leaves alone
nonClipVars == <<storeVars, cfVars, fmtVars, uiVars>>

\* the variables _make_cf_html_bytes leaves alone
nonCfVars == <<storeVars, clipVars, fmtVars, uiVars>>

vars == <<storeVars, clipVars, cfVars, fmtVars, uiVars>>

----------------------------------------------------------------------------
(* Symbols *)

DELIM == ","
QUOTE == "\""
CR == "\r"
LF == "\n"
None == <<"<None>">>
NoFile == <<"<NoFile>">>
\* the result of load_records: none yet, or the list it returned
NotLoaded == [done |-> FALSE, rows |-> <<>>]

Loaded(rows) == [done |-> TRUE, rows |-> rows]

\* FIELDS, line 24; a column name is a cell of one symbol
FIELDS == << <<"full_name">>, <<"username">>, <<"password">>, <<"pc_name">>,
             <<"ext">>, <<"ddi">>, <<"email">> >>

Range(s) == {s[i] : i \in 1..Len(s)}

RECURSIVE Flatten(_)
Flatten(ss) == IF ss = <<>> THEN <<>> ELSE Head(ss) \o Flatten(Tail(ss))

Prefix(s, k) == SubSeq(s, 1, k)

----------------------------------------------------------------------------
(* csv.writer with the default dialect: QUOTE_MINIMAL, doublequote,        *)
(* lineterminator "\r\n"                                                   *)

\* a None value is written as the empty string
CellText(v) == IF v = None THEN <<>> ELSE v

DoubleQuotes(s) ==
    Flatten([i \in 1..Len(s) |-> IF s[i] = QUOTE THEN <<QUOTE, QUOTE>> ELSE <<s[i]>>])

NeedsQuote(s) == \E i \in 1..Len(s) : s[i] \in {DELIM, QUOTE, CR, LF}

WriteFieldNoDoubling(v) ==
    LET s == CellText(v)
    IN  IF NeedsQuote(s) THEN <<QUOTE>> \o s \o <<QUOTE>> ELSE s

WriteField(v) ==
    LET s == CellText(v)
    IN  IF NeedsQuote(s) THEN <<QUOTE>> \o DoubleQuotes(s) \o <<QUOTE>> ELSE s

RECURSIVE JoinFields(_)
JoinFields(cells) ==
    IF cells = <<>> THEN <<>>
    ELSE IF Len(cells) = 1 THEN WriteField(cells[1])
    ELSE WriteField(cells[1]) \o <<DELIM>> \o JoinFields(Tail(cells))

\* writer.writerow: a row of one empty field is written as ""
WriteRow(cells) ==
    (IF Len(cells) = 1 /\ CellText(cells[1]) = <<>>
     THEN <<QUOTE, QUOTE>> ELSE JoinFields(cells)) \o <<CR, LF>>

\* DictWriter._dict_to_list: a missing key is written as restval ''
DictToList(rec) ==
    [i \in 1..Len(FIELDS) |-> IF FIELDS[i] \in DOMAIN rec THEN rec[FIELDS[i]] ELSE <<>>]

\* DictWriter raises ValueError on a key that is no field name (extrasaction='raise')
Writable(rec) == DOMAIN rec \subseteq Range(FIELDS)

HeaderText == WriteRow(FIELDS)

\* the text writeheader() + writerows(records) produces
CsvText(records) ==
    HeaderText \o Flatten([i \in 1..Len(records) |-> WriteRow(DictToList(records[i]))])

----------------------------------------------------------------------------
(* csv.reader with the default dialect, reading a file opened with         *)
(* newline="": the file yields lines ending in "\r\n", "\n" or "\r", the   *)
(* terminator kept; the reader consumes each line's characters and then an *)
(* end-of-line mark.  The parser state: st the automaton's state, buf the  *)
(* field being read, fields the record being read, rows the records read.  *)

ParseInit == [st |-> "START_RECORD", buf |-> <<>>, fields |-> <<>>, rows |-> <<>>]

SaveField(ps) == [ps EXCEPT !.fields = Append(ps.fields, ps.buf), !.buf = <<>>]

AddChar(ps, c) == [ps EXCEPT !.buf = Append(ps.buf, c)]

\* one character of a line
ParseChar(ps, c) ==
    CASE ps.st \in {"START_RECORD", "START_FIELD"} ->
            IF ps.st = "START_RECORD" /\ c \in {CR, LF}
            THEN [ps EXCEPT !.st = "EAT_CRNL"]
            ELSE IF c \in {CR, LF} THEN [SaveField(ps) EXCEPT !.st = "EAT_CRNL"]
            ELSE IF c = QUOTE THEN [ps EXCEPT !.st = "IN_QUOTED_FIELD"]
            ELSE IF c = DELIM THEN [SaveField(ps) EXCEPT !.st = "START_FIELD"]
            ELSE [AddChar(ps, c) EXCEPT !.st = "IN_FIELD"]
      [] ps.st = "IN_FIELD" ->
            IF c \in {CR, LF} THEN [SaveField(ps) EXCEPT !.st = "EAT_CRNL"]
            ELSE IF c = DELIM THEN [SaveField(ps) EXCEPT !.st = "START_FIELD"]
            ELSE AddChar(ps, c)
      [] ps.st = "IN_QUOTED_FIELD" ->
            IF c = QUOTE THEN [ps EXCEPT !.st = "QUOTE_IN_QUOTED_FIELD"]
            ELSE AddChar(ps, c)
      [] ps.st = "QUOTE_IN_QUOTED_FIELD" ->
            IF c = QUOTE THEN [AddChar(ps, c) EXCEPT !.st = "IN_QUOTED_FIELD"]
            ELSE IF c = DELIM THEN [SaveField(ps) EXCEPT !.st = "START_FIELD"]
            ELSE IF c \in {CR, LF} THEN [SaveField(ps) EXCEPT !.st = "EAT_CRNL"]
            ELSE [AddChar(ps, c) EXCEPT !.st = "IN_FIELD"]
      [] OTHER -> ps   \* EAT_CRNL: the rest of the line terminator

\* the end of a line: a record ends unless a quoted field is open
ParseEol(ps) ==
    CASE ps.st = "IN_QUOTED_FIELD" -> ps
      [] ps.st = "EAT_CRNL" ->
            [ps EXCEPT !.st = "START_RECORD", !.rows = Append(ps.rows, ps.fields),
                       !.fields = <<>>]
      [] OTHER ->
            LET q == SaveField(ps)
            IN  [q EXCEPT !.st = "START_RECORD", !.rows = Append(q.rows, q.fields),
                          !.fields = <<>>]

\* a line ends after "\n", after a "\r" no "\n" follows, and at the end of the text
LineEndsAt(text, i) ==
    \/ i = Len(text)
    \/ text[i] = LF
    \/ text[i] = CR /\ text[i + 1] # LF

\* the characters of the line that begins at i, then its end-of-line mark
RECURSIVE ParseLine(_, _, _)
ParseLine(text, i, ps) ==
    LET p1 == ParseChar(ps, text[i])
    IN  IF LineEndsAt(text, i)
        THEN [ps |-> ParseEol(p1), next |-> i + 1]
        ELSE \* (the test makes TLC compute p1 here rather than at the end)
             IF p1.st = "" THEN [ps |-> p1, next |-> i + 1]
             ELSE ParseLine(text, i + 1, p1)

\* line after line; when the file is exhausted an open quoted field ends the
\* last record
RECURSIVE ParseFrom(_, _, _)
ParseFrom(text, i, ps) ==
    IF i > Len(text)
    THEN IF ps.st = "IN_QUOTED_FIELD" \/ ps.buf # <<>>
         THEN Append(ps.rows, SaveField(ps).fields)
         ELSE ps.rows
    ELSE LET r == ParseLine(text, i, ps)
         IN  IF r.next <= i THEN ps.rows ELSE ParseFrom(text, r.next, r.ps)

\* list(csv.reader(f))
CsvRows(text) == ParseFrom(text, 1, ParseInit)

\* the keys of a sequence of cells, as dict(zip(fieldnames, row)) takes them
\* (of a repeated name the last cell wins)
LastIndex(names, k) == CHOOSE i \in 1..Len(names) :
                           names[i] = k /\ \A j \in (i + 1)..Len(names) : names[j] # k

\* one row of csv.DictReader: restkey None holds the cells beyond the header,
\* restval None fills the names beyond the row
DictRow(names, row) ==
    LET zipped == {names[i] : i \in 1..(IF Len(row) < Len(names) THEN Len(row) ELSE Len(names))}
        short  == {names[i] : i \in (Len(row) + 1)..Len(names)}
        extra  == IF Len(row) > Len(names) THEN {None} ELSE {}
    IN  [k \in zipped \cup short \cup extra |->
            IF k \in extra /\ k \notin zipped \cup short
            THEN SubSeq(row, Len(names) + 1, Len(row))
            ELSE LET i == LastIndex(names, k)
                 IN  IF i <= Len(row) THEN row[i] ELSE None]

\* list(csv.DictReader(f)): the first row holds the names, empty rows are skipped
DictReaderList(text) ==
    LET rows == CsvRows(text)
    IN  IF rows = <<>> THEN <<>>
        ELSE LET body == SelectSeq(Tail(rows), LAMBDA r : r # <<>>)
             IN  [i \in 1..Len(body) |-> DictRow(Head(rows), body[i])]

----------------------------------------------------------------------------
(* Paths and the file system *)

\* DEFAULT_DB, line 20
DEFAULT_DB == [stem |-> "onboarding_db", suffix |-> ".csv"]

\* the other file the operator can choose in locate_csv's dialog (under its
\* "All files" filter), or that CONFIG_FILE can name
OtherPaths == {[stem |-> "archive", suffix |-> ".tmp"]}

DbPaths == {DEFAULT_DB} \cup OtherPaths

\* DB_FILE.with_suffix('.tmp'), line 87
WithSuffixTmp(p) == [p EXCEPT !.suffix = ".tmp"]

AllPaths == DbPaths \cup {WithSuffixTmp(p) : p \in DbPaths}

Exists(f, p) == f[p] # NoFile

\* a file of another program: other column names, a row shorter than the header
ForeignText == <<"name", DELIM, "phone", DELIM, "ext", CR, LF, "x", DELIM, "1", CR, LF>>

\* a file this program wrote earlier with a row removed from its end by hand:
\* the schema's header, a row of two cells
ShortRowText == HeaderText \o <<"a", DELIM, "b", CR, LF>>

\* what a file holds before the program starts: the default record file is
\* absent or was written by an earlier run; another file is absent, empty, or
\* holds one of the texts above; no temporary file is left over
InitialFiles(p) ==
    CASE p = DEFAULT_DB -> {NoFile, HeaderText}
      [] p \in DbPaths -> {NoFile, <<>>, ForeignText, ShortRowText}
      [] OTHER -> {NoFile}

\* ensure_db(path), lines 58-63, as a change of the file system
EnsureDbFs(f, p) == IF Exists(f, p) THEN f ELSE [f EXCEPT ![p] = HeaderText]

\* what CONFIG_FILE holds: no file, a file json.load() refuses, a JSON object
\* with no 'db_path', or one naming a path
NoConfig(kind) == [kind |-> kind, path |-> DEFAULT_DB]

ConfigPath(p) == [kind |-> "path", path |-> p]

ConfigValues == {NoConfig("absent"), NoConfig("corrupt"), NoConfig("empty")}
                    \cup {ConfigPath(p) : p \in DbPaths}

\* load_config(), lines 27-46: the value of DB_FILE it leaves
ConfiguredDb(cfg, db) ==
    IF cfg.kind \in {"absent", "corrupt"} THEN DEFAULT_DB
    ELSE IF cfg.kind = "empty" THEN db   \* no 'db_path' entry: DB_FILE is not assigned
    ELSE cfg.path                        \* lines 37-41: taken whether it exists or not

----------------------------------------------------------------------------
(* save_records(records), lines 84-99.  The outcome of each write is the   *)
(* number of symbols that reached the file: all of them, or fewer when the *)
(* write failed; -1 when the file could not be opened.                     *)

\* the rows writerows() writes before it meets a record it refuses
RECURSIVE WritableCount(_)
WritableCount(records) ==
    IF records = <<>> \/ ~Writable(Head(records)) THEN 0
    ELSE 1 + WritableCount(Tail(records))

\* what the writer can put into the file at most
WritableText(records) == CsvText(SubSeq(records, 1, WritableCount(records)))

\* the places a failing write stops at: before anything, or after a whole line
WriteCuts(text) == {k \in 0..(Len(text) - 1) : k = 0 \/ text[k] = LF}

\* the outcomes of writing `records` to a file: the symbols written
WriteOutcomes(records) ==
    LET text == WritableText(records)
    IN  {-1} \cup WriteCuts(text)
             \cup (IF WritableCount(records) = Len(records) THEN {Len(text)} ELSE {})

WriteCompleted(records, k) ==
    WritableCount(records) = Len(records) /\ k = Len(CsvText(records))

\* lines 87-91: the temporary file after the write that reached k symbols
AfterTmpWrite(f, db, records, k) ==
    [f EXCEPT ![WithSuffixTmp(db)] = Prefix(WritableText(records), k)]

\* os.replace(tmp, DB_FILE), line 93
AfterReplace(f, db) ==
    IF WithSuffixTmp(db) = db THEN f
    ELSE [f EXCEPT ![db] = f[WithSuffixTmp(db)], ![WithSuffixTmp(db)] = NoFile]

\* lines 96-99: the record file after the in-place write that reached k symbols
AfterRewrite(f, db, records, k) ==
    [f EXCEPT ![db] = Prefix(WritableText(records), k)]

\* save_records(records): tmpOut, fbOut the outcomes of the two writes,
\* replaceOk whether os.replace succeeded
SaveRecords(records, tmpOut, replaceOk, fbOut) ==
    LET f1 == EnsureDbFs(fs, DB_FILE)
    IN  /\ started
        /\ recs' = records
        /\ preSave' = fs[DB_FILE]
        /\ loaded' = NotLoaded
        /\ IF tmpOut < 0
           THEN /\ fs' = f1
                /\ saveResult' = "failed_tmp"
           ELSE LET f2 == AfterTmpWrite(f1, DB_FILE, records, tmpOut)
                IN  IF ~WriteCompleted(records, tmpOut)
                    THEN /\ fs' = f2
                         /\ saveResult' = "failed_tmp"
                    ELSE IF replaceOk
                    THEN /\ fs' = AfterReplace(f2, DB_FILE)
                         /\ saveResult' = "ok_replace"
                    ELSE IF fbOut < 0
                    THEN /\ fs' = f2
                         /\ saveResult' = "failed_fallback"
                    ELSE /\ fs' = AfterRewrite(f2, DB_FILE, records, fbOut)
                         /\ saveResult' = IF WriteCompleted(records, fbOut)
                                          THEN "ok_fallback" ELSE "failed_fallback"
        /\ UNCHANGED <<DB_FILE, started>>
        /\ UNCHANGED otherVars

\* load_records(), lines 79-82
LoadRecords ==
    /\ started
    /\ fs' = EnsureDbFs(fs, DB_FILE)
    /\ loaded' = Loaded(DictReaderList(fs'[DB_FILE]))
    /\ UNCHANGED <<DB_FILE, started, recs, saveResult, preSave>>
    /\ UNCHANGED otherVars

\* the module-level statements of lines 66-67: load_config(); ensure_db(DB_FILE),
\* cfg being what CONFIG_FILE holds
Startup(cfg) ==
    /\ ~started
    /\ started' = TRUE
    /\ DB_FILE' = ConfiguredDb(cfg, DB_FILE)
    /\ fs' = EnsureDbFs(fs, DB_FILE')
    /\ saveResult' = "none"
    /\ UNCHANGED <<recs, preSave, loaded>>
    /\ UNCHANGED otherVars

\* a call of ensure_db(DB_FILE)
EnsureDb ==
    /\ started
    /\ fs' = EnsureDbFs(fs, DB_FILE)
    /\ UNCHANGED <<DB_FILE, started, recs, saveResult, preSave, loaded>>
    /\ UNCHANGED otherVars

\* locate_csv(), lines 716-733, the operator choosing p.  (save_config() writes
\* CONFIG_FILE, which only the next start of the program reads.)
LocateCsv(p) ==
    /\ started
    /\ DB_FILE' = p
    /\ fs' = EnsureDbFs(IF ~Exists(fs, p) \/ fs[p] = <<>>
                        THEN [fs EXCEPT ![p] = HeaderText] ELSE fs, p)
    /\ loaded' = Loaded(DictReaderList(fs'[p]))      \* refresh_data()
    /\ saveResult' = "none"
    /\ UNCHANGED <<started, recs, preSave>>
    /\ UNCHANGED otherVars

----------------------------------------------------------------------------
(* The store under the operations of the program *)

Word(w) == <<w>>

SampleRecord(name, pcName) ==
    [k \in Range(FIELDS) |->
        CASE k = <<"full_name">> -> Word(name)
          [] k = <<"pc_name">> -> Word(pcName)
          [] k = <<"password">> -> <<"P", "w", DELIM, "1">>
          [] OTHER -> <<>>]

\* the record lists save_records is given
SampleSaves ==
    {<<>>, <<SampleRecord("Bob", "PC-02"), SampleRecord("Ann", "PC-01")>>}

\* the store at rest: started, with the default file holding the header
IdleStore ==
    /\ DB_FILE = DEFAULT_DB
    /\ started = TRUE
    /\ fs = [p \in AllPaths |-> IF p = DEFAULT_DB THEN HeaderText ELSE NoFile]
    /\ recs = <<>>
    /\ saveResult = "none"
    /\ preSave = NoFile
    /\ loaded = NotLoaded

\* no export under way
IdleClip ==
    /\ pc = "idle"
    /\ platform = "other"
    /\ fragment = <<>>
    /\ plainArg = None
    /\ clipOwner = "none"
    /\ clip = [html |-> <<"<absent>">>, text |-> <<"<absent>">>]
    /\ clip0 = clip
    /\ hHtml = "unallocated"
    /\ hTxt = "unallocated"
    /\ wExc = FALSE
    /\ openFailed = {}
    /\ tkInstalled = <<>>

\* no container built
NotBuilt == <<>>

IdleCf ==
    /\ cfPieces = <<>>
    /\ cfBytes = NotBuilt

\* no text formatted
NoRecord == <<"<no record>">>

NotFormatted == <<"<not formatted>">>

IdleFmt ==
    /\ fmtRec = NoRecord
    /\ emailText = NotFormatted

EmptyForm == [full |-> <<>>, pc |-> <<>>, pw |-> <<>>, ext |-> <<>>, ddi |-> <<>>]

NoOp == [name |-> "none", result |-> "none"]

\* the window as it opens on a header-only file
IdleUi ==
    /\ form = EmptyForm
    /\ tree = <<>>
    /\ sel = {}
    /\ current_index = None
    /\ uiOp = NoOp

IdleOther == IdleClip /\ IdleCf /\ IdleFmt /\ IdleUi

InitStore ==
    /\ DB_FILE = DEFAULT_DB
    /\ started = FALSE
    /\ fs \in {f \in [AllPaths -> UNION {InitialFiles(p) : p \in AllPaths}] :
                 \A p \in AllPaths : f[p] \in InitialFiles(p)}
    /\ recs = <<>>
    /\ saveResult = "none"
    /\ preSave = NoFile
    /\ loaded = NotLoaded
    /\ IdleOther

NextStore ==
    \/ \E cfg \in ConfigValues : Startup(cfg)
    \/ EnsureDb
    \/ LoadRecords
    \/ \E r \in SampleSaves :
         \E tmpOut \in WriteOutcomes(r), fbOut \in WriteOutcomes(r), replaceOk \in BOOLEAN :
            \* (an outcome of a step that is not reached is not varied)
            /\ (~WriteCompleted(r, tmpOut) \/ replaceOk) => fbOut < 0
            /\ ~WriteCompleted(r, tmpOut) => replaceOk
            /\ SaveRecords(r, tmpOut, replaceOk, fbOut)
    \/ \E p \in DbPaths : LocateCsv(p)

SpecStore == InitStore /\ [][NextStore]_vars

\* the first row of the record file: its header
HeaderRow(text) == LET rows == CsvRows(text) IN IF rows = <<>> THEN <<>> ELSE Head(rows)

\* C2: once the program has started, the file DB_FILE names exists and its
\* header row is exactly the seven-column schema, whatever operations were
\* called; ensure_db leaves an existing file unchanged.
C2_SchemaInvariant ==
    started => /\ Exists(fs, DB_FILE)
               /\ HeaderRow(fs[DB_FILE]) = FIELDS
               /\ EnsureDbFs(fs, DB_FILE) = fs

\* C3: a save_records call that failed while writing the temporary file left
\* the record file exactly as it was before the call.
C3_FailedSaveKeepsTarget ==
    saveResult = "failed_tmp" => fs[DB_FILE] = preSave

----------------------------------------------------------------------------
(* save_records and load_records on record lists of arbitrary strings: the *)
(* list is built a record and a symbol at a time, saved, and loaded.       *)

MaxRecords == 2
MaxChars == 2

\* the symbols a field is built from
Alphabet == {"a", DELIM, QUOTE, CR, LF}

\* the columns that take symbols: the first of a row, its neighbour, the last
TypedColumns == {1, 2, Len(FIELDS)}

EmptyRecord == [k \in Range(FIELDS) |-> <<>>]

RECURSIVE SumLen(_)
SumLen(cells) == IF cells = <<>> THEN 0 ELSE Len(Head(cells)) + SumLen(Tail(cells))

CharCount(records) ==
    SumLen([n \in 1..(Len(records) * Len(FIELDS)) |->
               records[((n - 1) \div Len(FIELDS)) + 1][FIELDS[((n - 1) % Len(FIELDS)) + 1]]])

CsvAddRecord ==
    /\ saveResult = "none"
    /\ Len(recs) < MaxRecords
    /\ recs' = Append(recs, EmptyRecord)
    /\ UNCHANGED <<DB_FILE, fs, started, saveResult, preSave, loaded>>
    /\ UNCHANGED otherVars

CsvTypeChar(i, k, c) ==
    /\ saveResult = "none"
    /\ CharCount(recs) < MaxChars
    /\ recs' = [recs EXCEPT ![i][FIELDS[k]] = Append(@, c)]
    /\ UNCHANGED <<DB_FILE, fs, started, saveResult, preSave, loaded>>
    /\ UNCHANGED otherVars

InitCsv ==
    /\ IdleStore
    /\ IdleOther

NextCsv ==
    \/ CsvAddRecord
    \/ \E i \in 1..Len(recs), k \in TypedColumns, c \in Alphabet : CsvTypeChar(i, k, c)
    \/ /\ saveResult = "none"
       /\ \E replaceOk \in BOOLEAN :
            SaveRecords(recs, Len(CsvText(recs)), replaceOk, Len(CsvText(recs)))
    \/ /\ saveResult # "none"
       /\ LoadRecords

SpecCsv == InitCsv /\ [][NextCsv]_vars

\* C1: load_records() after a completed save_records(records) returns exactly
\* the records saved, field by field and in order, whether the save ended by
\* os.replace or by the in-place rewrite.
C1_RoundTrip ==
    (saveResult \in {"ok_replace", "ok_fallback"} /\ loaded.done) => loaded.rows = recs

\* two records, a field holding a quote and a line break, saved by the fallback
\* and loaded
C1_Witness ==
    /\ saveResult = "ok_fallback"
    /\ loaded.done
    /\ Len(recs) = 2
    /\ \E i \in 1..2, k \in TypedColumns : recs[i][FIELDS[k]] = <<QUOTE, LF>>

----------------------------------------------------------------------------
(* strip_tags(html), lines 117-121 *)

WhiteSpace == {" ", "\t", LF, CR}

\* the first place at or after i that holds no white space
RECURSIVE SkipSpace(_, _)
SkipSpace(s, i) == IF i <= Len(s) /\ s[i] \in WhiteSpace THEN SkipSpace(s, i + 1) ELSE i

\* the length of the match of <br\s*/?> (ignoring case) at i, 0 if none
MatchBr(s, i) ==
    IF i + 2 <= Len(s) /\ s[i] = "<" /\ s[i + 1] \in {"b", "B"} /\ s[i + 2] \in {"r", "R"}
    THEN LET j == SkipSpace(s, i + 3)
             k == IF j <= Len(s) /\ s[j] = "/" THEN j + 1 ELSE j
         IN  IF k <= Len(s) /\ s[k] = ">" THEN k - i + 1 ELSE 0
    ELSE 0

\* the length of the match of <[^>]+> at i, 0 if none
MatchTag(s, i) ==
    IF s[i] = "<" /\ \E j \in (i + 1)..Len(s) : s[j] = ">"
    THEN LET j == CHOOSE j \in (i + 1)..Len(s) :
                      s[j] = ">" /\ \A k \in (i + 1)..(j - 1) : s[k] # ">"
         IN  IF j >= i + 2 THEN j - i + 1 ELSE 0
    ELSE 0

\* re.sub(r'<br\s*/?>', '\n', html, flags=re.I)
RECURSIVE SubBr(_, _)
SubBr(s, i) ==
    IF i > Len(s) THEN <<>>
    ELSE IF MatchBr(s, i) > 0 THEN <<LF>> \o SubBr(s, i + MatchBr(s, i))
    ELSE <<s[i]>> \o SubBr(s, i + 1)

\* re.sub(r'<[^>]+>', '', text)
RECURSIVE SubTag(_, _)
SubTag(s, i) ==
    IF i > Len(s) THEN <<>>
    ELSE IF MatchTag(s, i) > 0 THEN SubTag(s, i + MatchTag(s, i))
    ELSE <<s[i]>> \o SubTag(s, i + 1)

\* (br, the text after the first substitution, is bound once)
StripTags(html) == CHOOSE text \in {SubTag(br, 1) : br \in {SubBr(html, 1)}} : TRUE

----------------------------------------------------------------------------
(* The clipboard and the memory blocks *)

\* a clipboard format that holds no entry
Absent == <<"<absent>">>

EmptyClip == [html |-> Absent, text |-> Absent]

\* what some other program copied earlier
OldClip == [html |-> <<"<old html>">>, text |-> <<"<old text>">>]

\* the container _make_cf_html_bytes builds of a fragment, as a clipboard entry
\* (its bytes are the subject of MakeCfHtmlBytes)
CfHtml(f) == <<"<cf_html>">> \o f

\* a lone surrogate: a character no strict encoder accepts
SURROGATE == "U+DC00"

\* str.encode('utf-8') and str.encode('utf-16le') succeed
Encodable(text) == \A i \in 1..Len(text) : text[i] # SURROGATE

\* strip_tags(html_fragment) if plain_text is None else plain_text
Plain(f, p) == IF p = None THEN StripTags(f) ELSE p

\* kernel32.GlobalFree on a block in state h
GlobalFree(h) ==
    CASE h = "held"        -> "freed"
      [] h = "transferred" -> "freed_after_transfer"
      [] h = "freed"       -> "freed_twice"
      [] OTHER             -> h

\* the block after GlobalLock: freed by the function when the lock failed
BlockAfterLock(h, ok) == IF ok THEN h ELSE GlobalFree(h)

\* (SetClipboardData failed and the block is not freed)
BlockAfterSetNoFree(h, ok) == IF ok THEN "transferred" ELSE h

\* the block after SetClipboardData: the clipboard's when it succeeded, freed
\* by the function when it failed
BlockAfterSet(h, ok) == IF ok THEN "transferred" ELSE GlobalFree(h)

\* where an exception raised in the win32clipboard attempt goes
PyHandler == "w32_prepare"

\* where an exception raised by _set_clipboard_html_win32 goes
W32Handler == "tk_clear"

\* (no except clause around the Tk calls)
TkHandlerMissing == "raised"

\* where an exception raised by a Tk clipboard call goes
TkHandler == "done"

\* (the result of OpenClipboard is not tested)
W32OpenNextUnchecked(opened) == "w32_empty"

\* (a failed OpenClipboard is tried again)
W32OpenNextRetry(opened) == IF opened THEN "w32_empty" ELSE "w32_open"

\* after user32.OpenClipboard(0): on, or out by RuntimeError before the try
W32OpenNext(opened) == IF opened THEN "w32_empty" ELSE W32Handler

\* the Tk calls act on the system clipboard only when no one has it open
TkReaches == clipOwner = "none"

----------------------------------------------------------------------------
(* set_html_clipboard_fragment, statement by statement *)

ExportKeeps(vs) == UNCHANGED <<platform, fragment, plainArg, clip0, vs, nonClipVars>>

Start ==
    /\ pc = "start"
    /\ pc' = IF platform # "other" THEN "import" ELSE "tk_clear"
    /\ ExportKeeps(<<clipOwner, clip, hHtml, hTxt, wExc, openFailed, tkInstalled>>)

PyImport ==
    /\ pc = "import"
    /\ pc' = IF platform = "win32" THEN "py_open" ELSE PyHandler
    /\ ExportKeeps(<<clipOwner, clip, hHtml, hTxt, wExc, openFailed, tkInstalled>>)

PyOpenClipboard ==
    /\ pc = "py_open"
    /\ IF clipOwner = "none"
       THEN /\ clipOwner' = "self"
            /\ pc' = "py_empty"
            /\ UNCHANGED openFailed
       ELSE /\ openFailed' = openFailed \cup {"win32clipboard"}
            /\ pc' = PyHandler
            /\ UNCHANGED clipOwner
    /\ ExportKeeps(<<clip, hHtml, hTxt, wExc, tkInstalled>>)

PyEmptyClipboard(ok) ==
    /\ pc = "py_empty"
    /\ IF ok THEN clip' = EmptyClip /\ pc' = "py_make"
             ELSE clip' = clip /\ pc' = PyHandler
    /\ ExportKeeps(<<clipOwner, hHtml, hTxt, wExc, openFailed, tkInstalled>>)

PyMakeCfHtml ==
    /\ pc = "py_make"
    /\ pc' = IF Encodable(fragment) THEN "py_set_html" ELSE PyHandler
    /\ ExportKeeps(<<clipOwner, clip, hHtml, hTxt, wExc, openFailed, tkInstalled>>)

PySetHtml(ok) ==
    /\ pc = "py_set_html"
    /\ IF ok THEN clip' = [clip EXCEPT !.html = CfHtml(fragment)] /\ pc' = "py_set_text"
             ELSE clip' = clip /\ pc' = PyHandler
    /\ ExportKeeps(<<clipOwner, hHtml, hTxt, wExc, openFailed, tkInstalled>>)

PySetText(ok) ==
    /\ pc = "py_set_text"
    /\ IF ok THEN clip' = [clip EXCEPT !.text = Plain(fragment, plainArg)] /\ pc' = "py_close"
             ELSE clip' = clip /\ pc' = PyHandler
    /\ ExportKeeps(<<clipOwner, hHtml, hTxt, wExc, openFailed, tkInstalled>>)

PyCloseClipboard(ok) ==
    /\ pc = "py_close"
    /\ IF ok THEN clipOwner' = "none" /\ pc' = "done"
             ELSE clipOwner' = clipOwner /\ pc' = PyHandler
    /\ ExportKeeps(<<clip, hHtml, hTxt, wExc, openFailed, tkInstalled>>)

----------------------------------------------------------------------------
(* _set_clipboard_html_win32, statement by statement *)

\* plain_text, the two encodings, the format registration
W32Prepare ==
    /\ pc = "w32_prepare"
    /\ pc' = IF Encodable(fragment) /\ Encodable(Plain(fragment, plainArg))
             THEN "w32_open" ELSE W32Handler
    /\ ExportKeeps(<<clipOwner, clip, hHtml, hTxt, wExc, openFailed, tkInstalled>>)

\* OpenClipboard(0) fails when another program has the clipboard open; the
\* process that already has it open with the same (null) window opens it again
W32OpenClipboard ==
    /\ pc = "w32_open"
    /\ LET opened == clipOwner # "other"
       IN  /\ pc' = W32OpenNext(opened)
           /\ clipOwner' = IF opened THEN "self" ELSE clipOwner
           /\ openFailed' = IF opened THEN openFailed ELSE openFailed \cup {"ctypes"}
    /\ ExportKeeps(<<clip, hHtml, hTxt, wExc, tkInstalled>>)

W32EmptyClipboard(ok) ==
    /\ pc = "w32_empty"
    /\ IF ok THEN clip' = EmptyClip /\ pc' = "w32_alloc_html" /\ wExc' = wExc
             ELSE clip' = clip /\ pc' = "w32_finally" /\ wExc' = TRUE
    /\ ExportKeeps(<<clipOwner, hHtml, hTxt, openFailed, tkInstalled>>)

W32AllocHtml(ok) ==
    /\ pc = "w32_alloc_html"
    /\ IF ok THEN hHtml' = "held" /\ pc' = "w32_lock_html" /\ wExc' = wExc
             ELSE hHtml' = hHtml /\ pc' = "w32_finally" /\ wExc' = TRUE
    /\ ExportKeeps(<<clipOwner, clip, hTxt, openFailed, tkInstalled>>)

W32LockHtml(ok) ==
    /\ pc = "w32_lock_html"
    /\ hHtml' = BlockAfterLock(hHtml, ok)
    /\ IF ok THEN pc' = "w32_set_html" /\ wExc' = wExc
             ELSE pc' = "w32_finally" /\ wExc' = TRUE
    /\ ExportKeeps(<<clipOwner, clip, hTxt, openFailed, tkInstalled>>)

W32SetHtml(ok) ==
    /\ pc = "w32_set_html"
    /\ hHtml' = BlockAfterSet(hHtml, ok)
    /\ IF ok THEN clip' = [clip EXCEPT !.html = CfHtml(fragment)]
                  /\ pc' = "w32_alloc_txt" /\ wExc' = wExc
             ELSE clip' = clip /\ pc' = "w32_finally" /\ wExc' = TRUE
    /\ ExportKeeps(<<clipOwner, hTxt, openFailed, tkInstalled>>)

W32AllocTxt(ok) ==
    /\ pc = "w32_alloc_txt"
    /\ IF ok THEN hTxt' = "held" /\ pc' = "w32_lock_txt" /\ wExc' = wExc
             ELSE hTxt' = hTxt /\ pc' = "w32_finally" /\ wExc' = TRUE
    /\ ExportKeeps(<<clipOwner, clip, hHtml, openFailed, tkInstalled>>)

W32LockTxt(ok) ==
    /\ pc = "w32_lock_txt"
    /\ hTxt' = BlockAfterLock(hTxt, ok)
    /\ IF ok THEN pc' = "w32_set_txt" /\ wExc' = wExc
             ELSE pc' = "w32_finally" /\ wExc' = TRUE
    /\ ExportKeeps(<<clipOwner, clip, hHtml, openFailed, tkInstalled>>)

W32SetTxt(ok) ==
    /\ pc = "w32_set_txt"
    /\ hTxt' = BlockAfterSet(hTxt, ok)
    /\ IF ok THEN clip' = [clip EXCEPT !.text = Plain(fragment, plainArg)] /\ wExc' = wExc
             ELSE clip' = clip /\ wExc' = TRUE
    /\ pc' = "w32_finally"
    /\ ExportKeeps(<<clipOwner, hHtml, openFailed, tkInstalled>>)

\* finally: user32.CloseClipboard(); then the return, or the exception goes on
W32Finally ==
    /\ pc = "w32_finally"
    /\ clipOwner' = "none"
    /\ pc' = IF wExc THEN W32Handler ELSE "done"
    /\ ExportKeeps(<<clip, hHtml, hTxt, wExc, openFailed, tkInstalled>>)

----------------------------------------------------------------------------
(* The Tk fallback, and the other programs *)

TkPayload == [format |-> "text", data |-> Plain(fragment, plainArg)]

TkClear(ok) ==
    /\ pc = "tk_clear"
    /\ IF ok THEN /\ clip' = IF TkReaches THEN EmptyClip ELSE clip
                  /\ pc' = "tk_append"
             ELSE clip' = clip /\ pc' = TkHandler
    /\ ExportKeeps(<<clipOwner, hHtml, hTxt, wExc, openFailed, tkInstalled>>)

TkAppend(ok) ==
    /\ pc = "tk_append"
    /\ IF ok THEN /\ clip' = IF TkReaches THEN [clip EXCEPT !.text = TkPayload.data] ELSE clip
                  /\ tkInstalled' = Append(tkInstalled, TkPayload)
                  /\ pc' = "done"
             ELSE clip' = clip /\ tkInstalled' = tkInstalled /\ pc' = TkHandler
    /\ ExportKeeps(<<clipOwner, hHtml, hTxt, wExc, openFailed>>)

\* another program opens the clipboard, and closes it (its own copies are
\* not followed)
OtherOpens ==
    /\ clipOwner = "none"
    /\ clipOwner' = "other"
    /\ ExportKeeps(<<pc, clip, hHtml, hTxt, wExc, openFailed, tkInstalled>>)

OtherCloses ==
    /\ clipOwner = "other"
    /\ clipOwner' = "none"
    /\ ExportKeeps(<<pc, clip, hHtml, hTxt, wExc, openFailed, tkInstalled>>)

----------------------------------------------------------------------------
(* SpecClip: one export, from every platform, input and clipboard *)

\* <b><u>PC login:</u></b><br/> as format_html_lines_for_fragment makes it
FragHeading ==
    <<"<", "b", ">", "<", "u", ">", "PC login:", "<", "/", "u", ">", "<", "/", "b", ">",
      "<", "b", "r", "/", ">">>

\* a line whose text holds half of a surrogate pair
FragSurrogate == <<"Ext: ", SURROGATE, "<", "b", "r", "/", ">">>

Fragments == {FragHeading, FragSurrogate}

PlainArgs == {None, <<"PC login:", LF>>, <<"PC login:">>}

InitClip ==
    /\ IdleStore
    /\ IdleCf
    /\ IdleFmt
    /\ IdleUi
    /\ pc = "start"
    /\ platform \in {"win32", "win32_bare", "other"}
    /\ fragment \in Fragments
    /\ plainArg \in PlainArgs
    /\ clipOwner \in {"none", "other"}
    /\ clip0 \in {EmptyClip, OldClip}
    /\ clip = clip0
    /\ hHtml = "unallocated"
    /\ hTxt = "unallocated"
    /\ wExc = FALSE
    /\ openFailed = {}
    /\ tkInstalled = <<>>

\* the steps of set_html_clipboard_fragment itself
ExportStep ==
    \/ Start
    \/ PyImport
    \/ PyOpenClipboard
    \/ \E ok \in BOOLEAN : PyEmptyClipboard(ok)
    \/ PyMakeCfHtml
    \/ \E ok \in BOOLEAN : PySetHtml(ok)
    \/ \E ok \in BOOLEAN : PySetText(ok)
    \/ \E ok \in BOOLEAN : PyCloseClipboard(ok)
    \/ W32Prepare
    \/ W32OpenClipboard
    \/ \E ok \in BOOLEAN : W32EmptyClipboard(ok)
    \/ \E ok \in BOOLEAN : W32AllocHtml(ok)
    \/ \E ok \in BOOLEAN : W32LockHtml(ok)
    \/ \E ok \in BOOLEAN : W32SetHtml(ok)
    \/ \E ok \in BOOLEAN : W32AllocTxt(ok)
    \/ \E ok \in BOOLEAN : W32LockTxt(ok)
    \/ \E ok \in BOOLEAN : W32SetTxt(ok)
    \/ W32Finally
    \/ \E ok \in BOOLEAN : TkClear(ok)
    \/ \E ok \in BOOLEAN : TkAppend(ok)

NextClip ==
    \/ ExportStep
    \/ OtherOpens
    \/ OtherCloses

SpecClip == InitClip /\ [][NextClip]_vars

\* C4: when set_html_clipboard_fragment has returned, this process does not
\* have the clipboard open: every successful OpenClipboard has been followed
\* by a CloseClipboard, whichever step failed in between.
C4_ClipboardReleased ==
    pc = "done" => clipOwner # "self"

\* the three states the export may leave the clipboard in
BothEntries == clip = [html |-> CfHtml(fragment), text |-> Plain(fragment, plainArg)]

TextOnly == clip = [html |-> Absent, text |-> Plain(fragment, plainArg)]

Untouched == clip = clip0

\* C5: when the export has returned, the clipboard holds the CF_HTML entry
\* and the text entry, or the text entry alone, or what it held when the
\* export began; never an HTML entry without text, never nothing where
\* there was something.
C5_NoPartialClipboard ==
    pc = "done" => BothEntries \/ TextOnly \/ Untouched

\* _set_clipboard_html_win32 has been left
W32Exited == pc \in {"tk_clear", "tk_append", "done", "raised"}

\* C6: each of the two blocks of _set_clipboard_html_win32 is never freed
\* after its SetClipboardData succeeded and never freed twice, and once the
\* function is in its finally clause or has been left, a block that was
\* allocated is the clipboard's or has been freed.
C6_BlockOwnership ==
    \A h \in {hHtml, hTxt} :
        /\ h \notin {"freed_after_transfer", "freed_twice"}
        /\ (pc = "w32_finally" \/ W32Exited) => h \in {"unallocated", "transferred", "freed"}

C6_Witness ==
    /\ pc = "done"
    /\ hHtml = "transferred"
    /\ hTxt = "freed"

C8_AcquisitionFailure ==
    /\ (pc = "w32_prepare" /\ "win32clipboard" \in openFailed)
          => clip = clip0 /\ clipOwner # "self" /\ hHtml = "unallocated" /\ hTxt = "unallocated"
    /\ (pc = "tk_clear" /\ "ctypes" \in openFailed)
          => clip = clip0 /\ clipOwner # "self" /\ hHtml = "unallocated" /\ hTxt = "unallocated"

C8_Witness ==
    /\ pc = "tk_clear"
    /\ "ctypes" \in openFailed
    /\ clip0 = OldClip
    /\ clip = OldClip
    /\ platform = "win32_bare"

----------------------------------------------------------------------------
(* Bytes: str.encode('utf-8'), bytes.find, %08d *)

\* the characters of code 32 to 126, in order (the grave accent by name)
Printable ==
    <<" ", "!", "\"", "#", "$", "%", "&", "'", "(", ")", "*", "+", ",", "-", ".", "/",
      "0", "1", "2", "3", "4", "5", "6", "7", "8", "9", ":", ";", "<", "=", ">", "?",
      "@", "A", "B", "C", "D", "E", "F", "G", "H", "I", "J", "K", "L", "M", "N", "O",
      "P", "Q", "R", "S", "T", "U", "V", "W", "X", "Y", "Z", "[", "\\", "]", "^", "_",
      "<grave>", "a", "b", "c", "d", "e", "f", "g", "h", "i", "j", "k", "l", "m", "n", "o",
      "p", "q", "r", "s", "t", "u", "v", "w", "x", "y", "z", "{", "|", "}", "~">>

\* ord(c)
Ord(c) ==
    CASE c = CR -> 13
      [] c = LF -> 10
      [] OTHER  -> 31 + (CHOOSE i \in 1..Len(Printable) : Printable[i] = c)

\* a bytes literal
Bytes(chars) == [i \in 1..Len(chars) |-> Ord(chars[i])]

\* the UTF-8 bytes of the character of code point cp
Utf8(cp) ==
    IF cp < 128 THEN <<cp>>
    ELSE IF cp < 2048 THEN <<192 + (cp \div 64), 128 + (cp % 64)>>
    ELSE IF cp < 65536
         THEN <<224 + (cp \div 4096), 128 + ((cp \div 64) % 64), 128 + (cp % 64)>>
    ELSE <<240 + (cp \div 262144), 128 + ((cp \div 4096) % 64), 128 + ((cp \div 64) % 64),
           128 + (cp % 64)>>

\* text.encode('utf-8'), text a sequence of code points
EncodeUtf8(text) == Flatten([i \in 1..Len(text) |-> Utf8(text[i])])

\* needle occurs in hay at (0-based) offset k
OccursAt(hay, needle, k) ==
    /\ k + Len(needle) <= Len(hay)
    /\ \A j \in 1..Len(needle) : hay[k + j] = needle[j]

\* hay.find(needle)
Find(hay, needle) ==
    IF \E k \in 0..Len(hay) : OccursAt(hay, needle, k)
    THEN CHOOSE k \in 0..Len(hay) :
             /\ OccursAt(hay, needle, k)
             /\ \A m \in 0..(k - 1) : ~OccursAt(hay, needle, m)
    ELSE -1

\* b"%d" % n, n >= 0
RECURSIVE Digits(_)
Digits(n) == IF n < 10 THEN <<48 + n>> ELSE Digits(n \div 10) \o <<48 + (n % 10)>>

\* b"%08d" % n
Pad8(n) ==
    LET d == Digits(n)
    IN  IF Len(d) >= 8 THEN d ELSE [i \in 1..(8 - Len(d)) |-> 48] \o d

\* b[i:j], 0 <= i
Slice(b, i, j) == SubSeq(b, i + 1, IF j > Len(b) THEN Len(b) ELSE j)

----------------------------------------------------------------------------
(* _make_cf_html_bytes(fragment_html), lines 123-138 *)

start_fragment_marker ==
    Bytes(
    <<"<", "!", "-", "-", "S", "t", "a", "r", "t", "F", "r", "a", "g", "m", "e", "n",
      "t", "-", "-", ">">>)

end_fragment_marker ==
    Bytes(
    <<"<", "!", "-", "-", "E", "n", "d", "F", "r", "a", "g", "m", "e", "n", "t", "-",
      "-", ">">>)

\* header_template % (a, b, c, d)
HeaderOf(a, b, c, d) ==
    LET version == Bytes(<<"V", "e", "r", "s", "i", "o", "n", ":", "0", ".", "9", CR, LF,
          "S", "t", "a", "r", "t", "H", "T", "M", "L", ":">>)
        endHtml == Bytes(<<CR, LF, "E", "n", "d", "H", "T", "M", "L", ":">>)
        startFragment == Bytes(<<CR, LF, "S", "t", "a", "r", "t", "F", "r", "a", "g", "m",
              "e", "n", "t", ":">>)
        endFragment == Bytes(<<CR, LF, "E", "n", "d", "F", "r", "a", "g", "m", "e", "n",
              "t", ":">>)
    IN  version \o Pad8(a) \o endHtml \o Pad8(b) \o startFragment \o Pad8(c)
            \o endFragment \o Pad8(d) \o <<13, 10>>

html_body(fragment_bytes) ==
    Bytes(<<"<", "h", "t", "m", "l", ">", "<", "b", "o", "d", "y", ">">>)
        \o start_fragment_marker \o fragment_bytes \o end_fragment_marker
        \o Bytes(<<"<", "/", "b", "o", "d", "y", ">", "<", "/", "h", "t", "m", "l", ">">>)

header_len == Len(HeaderOf(0, 0, 0, 0))

\* the four offsets as the function computes them
CfOffsets(fragment_bytes) ==
    LET body == html_body(fragment_bytes)
    IN  [start_html     |-> header_len,
         end_html       |-> header_len + Len(body),
         start_fragment |-> header_len + Find(body, start_fragment_marker)
                                + Len(start_fragment_marker),
         end_fragment   |-> header_len + Find(body, end_fragment_marker)]

MakeCfHtmlBytes(fragment_bytes) ==
    LET o == CfOffsets(fragment_bytes)
    IN  HeaderOf(o.start_html, o.end_html, o.start_fragment, o.end_fragment)
            \o html_body(fragment_bytes)

----------------------------------------------------------------------------
(* SpecCf: a fragment is put together from pieces, then the container built *)

MaxPieces == 3

\* "a", e-acute (two bytes), an emoji (four bytes), and the two markers' text
Pieces == {<<97>>, <<233>>, <<128512>>, start_fragment_marker, end_fragment_marker}

\* fragment_html, as code points
CfFragment == Flatten(cfPieces)

CfAppend(piece) ==
    /\ Len(cfPieces) < MaxPieces
    /\ cfPieces' = Append(cfPieces, piece)
    /\ cfBytes' = NotBuilt
    /\ UNCHANGED nonCfVars

CfBuild ==
    /\ cfBytes = NotBuilt
    /\ cfBytes' = MakeCfHtmlBytes(EncodeUtf8(CfFragment))
    /\ UNCHANGED <<cfPieces, nonCfVars>>

InitCf ==
    /\ IdleStore
    /\ IdleClip
    /\ IdleCf
    /\ IdleFmt
    /\ IdleUi

NextCf ==
    \/ \E piece \in Pieces : CfAppend(piece)
    \/ CfBuild

SpecCf == InitCf /\ [][NextCf]_vars

\* the decimal number written in b from (1-based) place i on
RECURSIVE ReadNumber(_, _, _)
ReadNumber(b, i, acc) ==
    IF i <= Len(b) /\ b[i] \in 48..57
    THEN ReadNumber(b, i + 1, 10 * acc + (b[i] - 48))
    ELSE acc

\* the offset written in the header after name
HeaderField(full, name) == ReadNumber(full, 1 + Find(full, name) + Len(name), 0)

\* C9: in the bytes _make_cf_html_bytes returns, the header's StartHTML and
\* EndHTML offsets slice out the whole <html><body>...</body></html>
\* skeleton, its StartFragment and EndFragment offsets slice out exactly the
\* fragment's bytes, and the header is as long as with zero offsets; for
\* every fragment, multi-byte characters and the markers' own text included.
C9_OffsetsSlice ==
    cfBytes # NotBuilt =>
        LET frag == EncodeUtf8(CfFragment)
            skeleton == html_body(frag)
            sh == HeaderField(cfBytes,
                      Bytes(<<"S", "t", "a", "r", "t", "H", "T", "M", "L", ":">>))
            eh == HeaderField(cfBytes,
                      Bytes(<<"E", "n", "d", "H", "T", "M", "L", ":">>))
            sf == HeaderField(cfBytes,
                      Bytes(<<"S", "t", "a", "r", "t", "F", "r", "a", "g", "m", "e", "n", "t", ":">>))
            ef == HeaderField(cfBytes,
                      Bytes(<<"E", "n", "d", "F", "r", "a", "g", "m", "e", "n", "t", ":">>))
        IN  /\ Slice(cfBytes, sh, eh) = skeleton
            /\ Slice(cfBytes, sf, ef) = frag
            /\ sh = header_len
            /\ Len(cfBytes) = header_len + Len(skeleton)

----------------------------------------------------------------------------
(* make_username and format_email_text *)

\* the call left by an exception
Raised == <<"<raised>">>

\* str.upper() and str.lower() of one character
Upper(c) ==
    IF c \in Range(Printable) /\ Ord(c) \in 97..122 THEN Printable[Ord(c) - 32 - 31] ELSE c

Lower(c) ==
    IF c \in Range(Printable) /\ Ord(c) \in 65..90 THEN Printable[Ord(c) + 32 - 31] ELSE c

\* str.capitalize()
Capitalize(w) ==
    [i \in 1..Len(w) |-> IF i = 1 THEN Upper(w[i]) ELSE Lower(w[i])]

\* str.split(): the runs of characters that are not white space
RECURSIVE SplitFrom(_, _, _)
SplitFrom(s, i, word) ==
    IF i > Len(s) THEN (IF word = <<>> THEN <<>> ELSE <<word>>)
    ELSE IF s[i] \in WhiteSpace
         THEN (IF word = <<>> THEN <<>> ELSE <<word>>) \o SplitFrom(s, i + 1, <<>>)
         ELSE SplitFrom(s, i + 1, Append(word, s[i]))

Split(s) == SplitFrom(s, 1, <<>>)

\* ".".join(words)
RECURSIVE JoinDots(_)
JoinDots(words) ==
    IF words = <<>> THEN <<>>
    ELSE IF Len(words) = 1 THEN words[1]
    ELSE words[1] \o <<".">> \o JoinDots(Tail(words))

\* make_username(full_name): None has no strip()
make_username(full_name) ==
    IF full_name = None THEN Raised
    ELSE LET parts == Split(full_name)
         IN  JoinDots([i \in 1..Len(parts) |-> Capitalize(parts[i])])

\* rec.get(key, default)
Get(rec, key, default) == IF key \in DOMAIN rec THEN rec[key] ELSE default

\* a value in an f-string
Str(v) == IF v = None THEN <<"N", "o", "n", "e">> ELSE v

\* rec.get('username') or make_username(rec.get('full_name', ''))
DisplayUser(rec) ==
    LET stored == Get(rec, <<"username">>, None)
    IN  IF stored # None /\ stored # <<>> THEN stored
        ELSE make_username(Get(rec, <<"full_name">>, <<>>))

\* the lines of the text format_email_text(rec) returns, or Raised
format_email_text(rec) ==
    LET user == DisplayUser(rec)
    IN  IF user = Raised THEN Raised
        ELSE << <<"Hi,">>,
                <<>>,
                <<"Please see below for ">> \o Str(Get(rec, <<"full_name">>, <<>>))
                    \o <<"'s login details.">>,
                <<>>,
                <<"PC login:">>,
                <<"PC Name: ">> \o Str(Get(rec, <<"pc_name">>, <<>>)),
                <<"Username: ">> \o Str(user),
                <<"Password: ">> \o Str(Get(rec, <<"password">>, <<>>)),
                <<>>,
                <<"Itris:">>,
                <<"Username: ">> \o Str(user),
                <<"Password: ">> \o Str(Get(rec, <<"password">>, <<>>)),
                <<>>,
                <<"Telephone and DDI:">>,
                <<"Ext: ">> \o Str(Get(rec, <<"ext">>, <<>>)),
                <<"DDI: ">> \o Str(Get(rec, <<"ddi">>, <<>>)),
                <<>>,
                <<"Thanks,">> >>

----------------------------------------------------------------------------
(* SpecFmt: rows are added to a record file, the file is loaded, a record
   of it is formatted *)

MaxRows == 2

\* the header rows of the files: the schema, and two that lack columns
FmtHeaders ==
    {FIELDS,
     << <<"full_name">>, <<"password">> >>,
     << <<"pc_name">>, <<"full_name">> >>}

FullRow ==
    << <<"a", "n", " ", "L", "E">>, <<"u">>, <<"p">>, <<"c">>, <<"1">>, <<"2">>, <<"m">> >>

\* rows of one to seven cells, of eight, of seven empty cells, and a full row
\* with no username
FmtRows ==
    {SubSeq(FullRow, 1, k) : k \in 1..Len(FullRow)}
        \cup {Append(FullRow, <<"x">>),
              [i \in 1..Len(FullRow) |-> <<>>],
              [FullRow EXCEPT ![2] = <<>>]}

LineCount(text) == Cardinality({i \in 1..Len(text) : text[i] = LF})

\* the record file gets one more row
FmtAppendRow(row) ==
    /\ ~loaded.done
    /\ LineCount(fs[DB_FILE]) <= MaxRows
    /\ fs' = [fs EXCEPT ![DB_FILE] = @ \o WriteRow(row)]
    /\ UNCHANGED <<DB_FILE, started, recs, saveResult, preSave, loaded, otherVars>>

\* format_email_text(records[i]) on a record load_records returned
FormatRecord(i) ==
    /\ loaded.done
    /\ i \in 1..Len(loaded.rows)
    /\ fmtRec' = loaded.rows[i]
    /\ emailText' = format_email_text(loaded.rows[i])
    /\ UNCHANGED <<storeVars, clipVars, cfVars, uiVars>>

InitFmt ==
    /\ DB_FILE = DEFAULT_DB
    /\ started = TRUE
    /\ \E h \in FmtHeaders :
          fs = [p \in AllPaths |-> IF p = DEFAULT_DB THEN WriteRow(h) ELSE NoFile]
    /\ recs = <<>>
    /\ saveResult = "none"
    /\ preSave = NoFile
    /\ loaded = NotLoaded
    /\ IdleOther

NextFmt ==
    \/ \E row \in FmtRows : FmtAppendRow(row)
    \/ LoadRecords
    \/ \E i \in 1..MaxRows : FormatRecord(i)

SpecFmt == InitFmt /\ [][NextFmt]_vars

\* the field has no value in the record
Missing(rec, key) == Get(rec, key, None) \in {None, <<>>}

Headings == << <<"PC login:">>, <<"Itris:">>, <<"Telephone and DDI:">> >>

IsHeading(line) == line \in Range(Headings)

\* C10: for every record load_records returns, format_email_text does not
\* raise, its text has exactly the headings "PC login:", "Itris:",
\* "Telephone and DDI:" in that order, and every field that is missing or
\* has no value is rendered as nothing after the colon.
C10_FormatterTotal ==
    fmtRec # NoRecord =>
        /\ emailText # Raised
        /\ SelectSeq(emailText, IsHeading) = Headings
        /\ Missing(fmtRec, <<"pc_name">>) => emailText[6] = <<"PC Name: ">>
        /\ Missing(fmtRec, <<"password">>)
              => emailText[8] = <<"Password: ">> /\ emailText[12] = <<"Password: ">>
        /\ Missing(fmtRec, <<"ext">>) => emailText[15] = <<"Ext: ">>
        /\ Missing(fmtRec, <<"ddi">>) => emailText[16] = <<"DDI: ">>
        /\ (Missing(fmtRec, <<"username">>) /\ Missing(fmtRec, <<"full_name">>))
              => emailText[7] = <<"Username: ">> /\ emailText[11] = <<"Username: ">>

----------------------------------------------------------------------------
(* The window's handlers: what they compute *)

\* str.strip()
RECURSIVE Strip(_)
Strip(s) ==
    IF s = <<>> THEN s
    ELSE IF Head(s) \in WhiteSpace THEN Strip(Tail(s))
    ELSE IF s[Len(s)] \in WhiteSpace THEN Strip(SubSeq(s, 1, Len(s) - 1))
    ELSE s

\* str.lower()
LowerText(s) == [i \in 1..Len(s) |-> Lower(s[i])]

\* ent_full.get().strip() and so on
Stripped(f) == [x \in DOMAIN f |-> Strip(f[x])]

\* (the three fields are not tested)
ValidUnchecked(f) == TRUE

\* full and pc and pw, of the stripped values
Valid(f) == f.full # <<>> /\ f.pc # <<>> /\ f.pw # <<>>

\* rec, of the stripped values
NewRecord(f) ==
    LET username == make_username(f.full)
    IN  [k \in Range(FIELDS) |->
            CASE k = <<"full_name">> -> f.full
              [] k = <<"username">>  -> username
              [] k = <<"password">>  -> f.pw
              [] k = <<"pc_name">>   -> f.pc
              [] k = <<"ext">>       -> f.ext
              [] k = <<"ddi">>       -> f.ddi
              [] k = <<"email">>     -> username \o <<"@totalassist.co.uk">>]

\* (the record is put at the end)
InsertEnd(list, rec) == Append(list, rec)

\* recs.insert(0, rec)
InsertTop(list, rec) == <<rec>> \o list

\* del recs[idx]
DeleteAt(list, idx) == SubSeq(list, 1, idx) \o SubSeq(list, idx + 2, Len(list))

\* the records in the record file
StoreRecords(f) == DictReaderList(f[DB_FILE])

\* save_records(records) on the files f: the files after it, and how it ended
SaveFs(f, records, tmpOut, replaceOk, fbOut) ==
    LET f1 == EnsureDbFs(f, DB_FILE)
        f2 == AfterTmpWrite(f1, DB_FILE, records, tmpOut)
    IN  IF tmpOut < 0 THEN [fs |-> f1, result |-> "failed_tmp"]
        ELSE IF ~WriteCompleted(records, tmpOut) THEN [fs |-> f2, result |-> "failed_tmp"]
        ELSE IF replaceOk THEN [fs |-> AfterReplace(f2, DB_FILE), result |-> "ok_replace"]
        ELSE IF fbOut < 0 THEN [fs |-> f2, result |-> "failed_fallback"]
        ELSE [fs |-> AfterRewrite(f2, DB_FILE, records, fbOut),
              result |-> IF WriteCompleted(records, fbOut)
                         THEN "ok_fallback" ELSE "failed_fallback"]

\* the ways a save can go: by os.replace, by the rewrite, the temporary file
\* not opened
SaveKinds == {"replace", "rewrite", "no_tmp"}

SaveOf(f, records, kind) ==
    LET n == Len(CsvText(records))
    IN  CASE kind = "replace"     -> SaveFs(f, records, n, TRUE, n)
          [] kind = "rewrite"     -> SaveFs(f, records, n, FALSE, n)
          [] kind = "no_tmp"      -> SaveFs(f, records, -1, TRUE, -1)

\* the values populate_tree shows of a record
TreeValues(r) == [k \in Range(FIELDS) |-> Str(Get(r, k, <<>>))]

\* populate_tree(records)
PopulateTree(records) == [i \in 1..Len(records) |-> TreeValues(records[i])]

\* the records do_search keeps for the (stripped, lowered) query q
Matches(r, q) ==
    LET fn == LowerText(IF Missing(r, <<"full_name">>) THEN <<>> ELSE r[<<"full_name">>])
        un == LowerText(IF Missing(r, <<"username">>) THEN <<>> ELSE r[<<"username">>])
        pcn == LowerText(IF Missing(r, <<"pc_name">>) THEN <<>> ELSE r[<<"pc_name">>])
    IN  Find(fn, q) >= 0 \/ Find(un, q) >= 0 \/ Find(pcn, q) >= 0

Filtered(records, q) == SelectSeq(records, LAMBDA r : Matches(r, q))

----------------------------------------------------------------------------
(* The window's handlers *)

MaxStore == 3

\* what the handlers leave alone
nonUiVars == <<clipVars, cfVars, fmtVars>>

\* a handler that returns before it reads or writes anything
Returns(name, result) ==
    /\ uiOp' = [name |-> name, result |-> result]
    /\ UNCHANGED <<storeVars, form, tree, sel, current_index, nonUiVars>>

\* load_records(), a change of the list, save_records(list), refresh_data(),
\* clear_form(); an exception of save_records leaves the handler at once.
\* (recs, saveResult, preSave and loaded record the calls SaveRecords and
\* LoadRecords make on their own; the handlers are recorded in uiOp. How a
\* rewrite that fails leaves the file is followed in SpecStore.)
LoadChangeSave(name, list, kind) ==
    LET f1 == EnsureDbFs(fs, DB_FILE)
        r == SaveOf(f1, list, kind)
        saved == r.result \in {"ok_replace", "ok_fallback"}
    IN  /\ fs' = r.fs
        /\ uiOp' = [name |-> name, result |-> IF saved THEN "saved" ELSE "raised"]
        /\ IF saved
           THEN /\ tree' = PopulateTree(StoreRecords(r.fs))
                /\ sel' = {}
                /\ form' = EmptyForm
           ELSE UNCHANGED <<tree, sel, form>>
        /\ UNCHANGED <<DB_FILE, started, recs, saveResult, preSave, loaded, current_index,
                       nonUiVars>>

\* the operator types into the form
TypeForm(input) ==
    /\ form # input
    /\ form' = input
    /\ uiOp' = NoOp
    /\ UNCHANGED <<storeVars, tree, sel, current_index, nonUiVars>>

\* save_new(), lines 500-524
SaveNew(kind) ==
    LET f == Stripped(form)
        before == StoreRecords(EnsureDbFs(fs, DB_FILE))
    IN  IF ~Valid(f) THEN Returns("save_new", "rejected")
        ELSE /\ Len(before) < MaxStore
             /\ LoadChangeSave("save_new", InsertTop(before, NewRecord(f)), kind)

\* update_record(), lines 527-557
UpdateRecord(kind) ==
    LET f == Stripped(form)
        before == StoreRecords(EnsureDbFs(fs, DB_FILE))
    IN  IF current_index = None THEN Returns("update_record", "no_selection")
        ELSE IF ~Valid(f) THEN Returns("update_record", "rejected")
        ELSE IF 0 <= current_index /\ current_index < Len(before)
        THEN LoadChangeSave("update_record",
                            [before EXCEPT ![current_index + 1] = NewRecord(f)], kind)
        ELSE /\ fs' = EnsureDbFs(fs, DB_FILE)
             /\ uiOp' = [name |-> "update_record", result |-> "invalid_index"]
             /\ UNCHANGED <<DB_FILE, started, recs, saveResult, preSave, loaded, form, tree,
                            sel, current_index, nonUiVars>>

\* the operator picks row i of the list: on_tree_select(), lines 639-663
SelectRow(i) ==
    /\ i \in 0..(Len(tree) - 1)
    /\ sel' = {i}
    /\ form' = [full |-> tree[i + 1][<<"full_name">>], pc |-> tree[i + 1][<<"pc_name">>],
                pw |-> tree[i + 1][<<"password">>], ext |-> tree[i + 1][<<"ext">>],
                ddi |-> tree[i + 1][<<"ddi">>]]
    /\ uiOp' = NoOp
    /\ UNCHANGED <<storeVars, tree, current_index, nonUiVars>>

\* delete_record(), lines 675-688
DeleteRecord(confirmed, kind) ==
    IF sel = {} THEN Returns("delete_record", "no_selection")
    ELSE IF ~confirmed THEN Returns("delete_record", "cancelled")
    ELSE LET idx == CHOOSE i \in sel : TRUE
             before == StoreRecords(EnsureDbFs(fs, DB_FILE))
         IN  IF 0 <= idx /\ idx < Len(before)
             THEN LoadChangeSave("delete_record", DeleteAt(before, idx), kind)
             ELSE /\ fs' = EnsureDbFs(fs, DB_FILE)
                  /\ tree' = PopulateTree(before)
                  /\ sel' = {}
                  /\ form' = EmptyForm
                  /\ uiOp' = [name |-> "delete_record", result |-> "invalid_index"]
                  /\ UNCHANGED <<DB_FILE, started, recs, saveResult, preSave, loaded,
                                 current_index, nonUiVars>>

\* do_search() with query in the search box, lines 690-703
DoSearch(query) ==
    LET q == LowerText(Strip(query))
        all == StoreRecords(EnsureDbFs(fs, DB_FILE))
    IN  /\ fs' = EnsureDbFs(fs, DB_FILE)
        /\ tree' = PopulateTree(IF q # <<>> THEN Filtered(all, q) ELSE all)
        /\ sel' = {}
        /\ uiOp' = NoOp
        /\ UNCHANGED <<DB_FILE, started, recs, saveResult, preSave, loaded, form,
                       current_index, nonUiVars>>

\* refresh_data(), lines 633-637
RefreshData == DoSearch(<<>>)

----------------------------------------------------------------------------
(* SpecUi: the operator at the window, from a header-only record file *)

FormAnn ==
    [full |-> <<"a", "n", "n", " ", "l", "e", "e">>, pc |-> <<"P", "C", "-", "1">>,
     pw |-> <<"p", ",", "1">>, ext |-> <<"1", "0">>, ddi |-> <<>>]

FormBob ==
    [full |-> <<" ", "B", "o", "b">>, pc |-> <<"P", "C", "-", "2">>, pw |-> <<"q">>,
     ext |-> <<>>, ddi |-> <<>>]

\* the third: a form whose PC name is a blank
FormInputs == {FormAnn, FormBob, [FormAnn EXCEPT !.pc = <<" ">>]}

Queries == {<<"B", "o", "b">>}

InitUi ==
    /\ IdleStore
    /\ IdleOther

NextUi ==
    \/ \E input \in FormInputs : TypeForm(input)
    \/ \E kind \in SaveKinds : SaveNew(kind)
    \/ \E kind \in SaveKinds : UpdateRecord(kind)
    \/ \E i \in 0..(MaxStore - 1) : SelectRow(i)
    \/ \E confirmed \in BOOLEAN, kind \in SaveKinds : DeleteRecord(confirmed, kind)
    \/ \E query \in Queries : DoSearch(query)
    \/ RefreshData

SpecUi == InitUi /\ [][NextUi]_vars

\* the record save_new builds of FormAnn
RecordAnn ==
    [k \in Range(FIELDS) |->
        CASE k = <<"full_name">> -> <<"a", "n", "n", " ", "l", "e", "e">>
          [] k = <<"username">>  -> <<"A", "n", "n", ".", "L", "e", "e">>
          [] k = <<"password">>  -> <<"p", ",", "1">>
          [] k = <<"pc_name">>   -> <<"P", "C", "-", "1">>
          [] k = <<"ext">>       -> <<"1", "0">>
          [] k = <<"ddi">>       -> <<>>
          [] k = <<"email">>     -> <<"A", "n", "n", ".", "L", "e", "e", "@totalassist.co.uk">>]

\* the record save_new builds of FormBob
RecordBob ==
    [k \in Range(FIELDS) |->
        CASE k = <<"full_name">> -> <<"B", "o", "b">>
          [] k = <<"username">>  -> <<"B", "o", "b">>
          [] k = <<"password">>  -> <<"q">>
          [] k = <<"pc_name">>   -> <<"P", "C", "-", "2">>
          [] k = <<"ext">>       -> <<>>
          [] k = <<"ddi">>       -> <<>>
          [] k = <<"email">>     -> <<"B", "o", "b", "@totalassist.co.uk">>]

\* the record the form stands for
FormRecord == IF form = FormAnn THEN RecordAnn ELSE IF form = FormBob THEN RecordBob
              ELSE NewRecord(Stripped(form))

\* C11: when save_new has gone through on a form with full name, PC name
\* and password, load_records returns the record built from the form at
\* index 0, followed by exactly the records stored before, in their order.
C11_SaveNewPrepends ==
    [][(uiOp'.name = "save_new" /\ uiOp'.result = "saved")
          => StoreRecords(fs') = <<FormRecord>> \o StoreRecords(fs)]_vars

C11_Witness ==
    /\ uiOp = [name |-> "save_new", result |-> "saved"]
    /\ StoreRecords(fs) = <<RecordAnn, RecordBob, RecordAnn>>

\* the row picked in the list
SelectedRow == CHOOSE i \in sel : TRUE

\* C12: a confirmed delete_record that goes through removes from the store
\* exactly the record displayed in the selected row, whether the list was
\* filled by refresh_data or narrowed by do_search, and leaves every other
\* record in its order.
C12_DeleteRemovesShown ==
    [][(uiOp'.name = "delete_record" /\ uiOp'.result = "saved")
          => \E j \in 1..Len(StoreRecords(fs)) :
                /\ TreeValues(StoreRecords(fs)[j]) = tree[SelectedRow + 1]
                /\ StoreRecords(fs') = DeleteAt(StoreRecords(fs), j - 1)]_vars

\* every record read from the record file f has the three required fields
RequiredPresent(f) ==
    \A i \in 1..Len(StoreRecords(f)) :
        /\ Get(StoreRecords(f)[i], <<"full_name">>, None) \notin {None, <<>>}
        /\ Get(StoreRecords(f)[i], <<"pc_name">>, None) \notin {None, <<>>}
        /\ Get(StoreRecords(f)[i], <<"password">>, None) \notin {None, <<>>}

\* the form lacks, once stripped, the full name, the PC name or the password
FormLacks == Strip(form.full) = <<>> \/ Strip(form.pc) = <<>> \/ Strip(form.pw) = <<>>

\* C13: from a header-only store, after any sequence of save_new,
\* update_record and delete_record, every stored record has a non-empty
\* full_name, pc_name and password; and a save_new or update_record on a form
\* whose stripped full name, PC name or password is empty leaves the stored
\* records unchanged.
C13_RequiredFields ==
    /\ []RequiredPresent(fs)
    /\ [][(uiOp'.name \in {"save_new", "update_record"} /\ FormLacks)
            => StoreRecords(fs') = StoreRecords(fs)]_vars

C13_Witness ==
    /\ uiOp = [name |-> "save_new", result |-> "rejected"]
    /\ FormLacks
    /\ Len(StoreRecords(fs)) = 2

\* C15: after the operator has selected a record in the list and invokes
\* update_record with a full name, a PC name and a password, the store holds
\* the record built from the form at the position of the selected record,
\* with the same number of records and every other record as before.
C15_UpdateInPlace ==
    [][(/\ uiOp'.name = "update_record"
        /\ sel # {}
        /\ tree = PopulateTree(StoreRecords(fs))
        /\ ~FormLacks)
          => StoreRecords(fs')
               = [StoreRecords(fs) EXCEPT ![SelectedRow + 1] = FormRecord]]_vars

----------------------------------------------------------------------------
(* SpecClipFair: the export runs on; every call it makes returns, so a step
   of it that can be taken is taken. Nothing is asked of the other program,
   which may keep the clipboard open for ever. *)

SpecClipFair == SpecClip /\ WF_vars(ExportStep)

\* the positions of the export in the order of the code
PcOrder ==
    <<"start", "import", "py_open", "py_empty", "py_make", "py_set_html", "py_set_text",
      "py_close", "w32_prepare", "w32_open", "w32_empty", "w32_alloc_html",
      "w32_lock_html", "w32_set_html", "w32_alloc_txt", "w32_lock_txt", "w32_set_txt",
      "w32_finally", "tk_clear", "tk_append", "done">>

Rank(p) == CHOOSE i \in DOMAIN PcOrder : PcOrder[i] = p

\* C14: whatever another program does with the clipboard, keeping it open
\* for ever included, the export returns; and it never goes back in its
\* code, so each of its two OpenClipboard calls is made at most once.
C14_BoundedAcquisition ==
    /\ <>(pc = "done")
    /\ [][Rank(pc') > Rank(pc)]_<<pc, openFailed>>

C14_Witness ==
    /\ pc = "done"
    /\ clipOwner = "other"
    /\ openFailed = {"win32clipboard", "ctypes"}

====
